---- MODULE Spec2Model ----
(***************************************************************************)
(* Model of the int-to-int ordered map of src/Main.cpp: BSTMap, the AVL    *)
(* layer AVLTreeMap built on it, and the statistics layer TreeMapStats.    *)
(* The heap of nodes is an arena indexed by addresses; NULL is address 0.  *)
(* Every member function is an operator that takes the heap and returns    *)
(* the heap after the call (and the returned pointer, where there is one). *)
(***************************************************************************)
EXTENDS Integers, Sequences, FiniteSets, TLC

VARIABLES tree, pre, raw, op, ref, walk

vars == <<tree, pre, raw, op, ref, walk>>

\* ---------------------------------------------------------------- bounds
\* Spec: keys 1..MaxKey, values 1..MaxVal.
\* SpecKeyed: keys 1..MaxKeyed, every key put with the value equal to it.
MaxKey == 4
MaxVal == 2
MaxKeyed == 8
MaxWalkKey == 4

Keys == 1..MaxKey
Vals == 1..MaxVal
KeyedKeys == 1..MaxKeyed
WalkKeys == 1..MaxWalkKey
AllKeys == Keys \cup KeyedKeys \cup WalkKeys
Addr == AllKeys
NULL == 0

Max2(a, b) == IF a >= b THEN a ELSE b
Min2(a, b) == IF a <= b THEN a ELSE b
\* int is 32 bits wide, two's complement
IntMax == 2147483647
IntMin == -IntMax - 1

\* a + b leaves the range of int (undefined behaviour in the source)
Overflows(a, b) == (b > 0 /\ a > IntMax - b) \/ (b < 0 /\ a < IntMin - b)

\* a + b in int, wrapped around the range when it leaves it
AddInt(a, b) ==
  IF b > 0 /\ a > IntMax - b THEN (a - IntMax - 1) + (b - IntMax - 1)
  ELSE IF b < 0 /\ a < IntMin - b THEN (a - IntMin) + (b - IntMin)
  ELSE a + b

Abs(a) == IF a < 0 THEN 0 - a ELSE a

\* ------------------------------------------------------------ the heap
\* Contents of a slot that holds no node.
Freed ==
  [key |-> 0, value |-> 0, left |-> NULL, right |-> NULL, parent |-> NULL,
   ht |-> 0, num |-> 0, sum |-> 0, min |-> 0, max |-> 0, live |-> FALSE]

\* BSTMap() : root(NULL), n(0).  The other fields record the operation in
\* progress: rot and reb count its singleRotation and rebalance calls; early
\* is the number of ancestors rebalanceAncestors left unvisited when it
\* stopped on an unchanged height, and earlyRot tells whether the node it
\* stopped at had been rotated; preOK and postOK tell whether every call of
\* rebalance so far met its precondition and its postcondition; tie tells
\* whether rebalance met a child y with children of equal heights, and
\* tieDouble whether it then chose a double rotation; rotStats tells whether
\* every singleRotation so far returned with the statistics of y and z equal
\* to the true ones of their subtrees, and upd counts, for each node, the
\* calls of updateInfo on it; rebStop tells whether, after every call of
\* rebalance so far, rebalanceAncestors found the height of the returned node
\* equal to the height it had recorded and stopped; uaf tells whether a step
\* dereferenced a node after its delete, and dblFree whether a node was
\* deleted twice; ovf tells whether an int addition of updateStats left the
\* range of int.
EmptyMap ==
  [nd |-> [a \in Addr |-> Freed], root |-> NULL, n |-> 0,
   rot |-> 0, reb |-> 0, early |-> 0, earlyRot |-> FALSE,
   preOK |-> TRUE, postOK |-> TRUE, tie |-> FALSE, tieDouble |-> FALSE,
   rotStats |-> TRUE, upd |-> [a \in Addr |-> 0], rebStop |-> TRUE,
   uaf |-> FALSE, dblFree |-> FALSE, ovf |-> FALSE]

\* The heap at the start of an operation: nothing recorded yet
Fresh(h) ==
  [h EXCEPT !.rot = 0, !.reb = 0, !.early = 0, !.earlyRot = FALSE,
            !.preOK = TRUE, !.postOK = TRUE, !.tie = FALSE, !.tieDouble = FALSE,
            !.rotStats = TRUE, !.upd = [a \in Addr |-> 0], !.rebStop = TRUE,
            !.uaf = FALSE, !.dblFree = FALSE, !.ovf = FALSE]

\* operator new: the lowest address that holds no node
\* The heap h after a step that dereferenced the nodes of S other than NULL
use(h, S) == [h EXCEPT !.uaf = @ \/ \E a \in S \ {NULL} : ~h.nd[a].live]

New(h) == CHOOSE a \in Addr : ~h.nd[a].live /\ \A b \in Addr : b < a => h.nd[b].live

\* ------------------------------------------------------------- BSTMap
\* makeChild that leaves the child's parent field alone
makeChild_noParent(h, p, c, isLeft) ==
  IF p # NULL
  THEN IF isLeft THEN [h EXCEPT !.nd[p].left = c]
                 ELSE [h EXCEPT !.nd[p].right = c]
  ELSE h

makeChild(h, p, c, isLeft) ==
  LET h1 == IF p # NULL
            THEN IF isLeft THEN [h EXCEPT !.nd[p].left = c]
                           ELSE [h EXCEPT !.nd[p].right = c]
            ELSE h
  IN use(IF c # NULL THEN [h1 EXCEPT !.nd[c].parent = p] ELSE h1, {p, c})

RECURSIVE findNodeLoop(_, _, _, _)
findNodeLoop(h, w, z, k) ==
  IF w # NULL /\ h.nd[w].key # k
  THEN findNodeLoop(h, IF h.nd[w].key > k THEN h.nd[w].left ELSE h.nd[w].right, w, k)
  ELSE IF w # NULL THEN w ELSE z

findNode(h, k) == findNodeLoop(h, h.root, NULL, k)

find(h, k) ==
  LET w == findNode(h, k)
  IN IF w # NULL /\ h.nd[w].key = k THEN w ELSE NULL

height(h, w) == IF w # NULL THEN h.nd[w].ht ELSE 0

\* TreeMapStats::createNode: the constructors of the three Node classes
createNode(h, k, v, l, r, p) ==
  LET x == New(h)
  IN [h |-> [h EXCEPT !.nd[x] =
               [key |-> k, value |-> v, left |-> l, right |-> r, parent |-> p,
                ht |-> 1 + Max2(height(h, l), height(h, r)),
                num |-> 1, sum |-> v, min |-> v, max |-> v, live |-> TRUE]],
      r |-> x]

\* putNode that attaches the new leaf on the wrong side of its parent
BSTMap_putNode_wrongSide(h, k, v) ==
  LET w == findNode(h, k)
  IN IF w # NULL /\ h.nd[w].key = k
     THEN [h |-> [h EXCEPT !.nd[w].value = v], r |-> w]
     ELSE LET c  == createNode(h, k, v, NULL, NULL, w)
              x  == c.r
              h1 == IF w # NULL THEN makeChild(c.h, w, x, h.nd[w].key < k)
                                ELSE [c.h EXCEPT !.root = x]
          IN [h |-> [h1 EXCEPT !.n = @ + 1], r |-> x]

\* putNode that counts an update of an existing key as a new entry
BSTMap_putNode_countsUpdate(h, k, v) ==
  LET w == findNode(h, k)
  IN IF w # NULL /\ h.nd[w].key = k
     THEN [h |-> [h EXCEPT !.nd[w].value = v, !.n = @ + 1], r |-> w]
     ELSE LET c  == createNode(h, k, v, NULL, NULL, w)
              x  == c.r
              h1 == IF w # NULL THEN makeChild(c.h, w, x, h.nd[w].key > k)
                                ELSE [c.h EXCEPT !.root = x]
          IN [h |-> [h1 EXCEPT !.n = @ + 1], r |-> x]

BSTMap_putNode(h, k, v) ==
  LET w == findNode(h, k)
  IN IF w # NULL /\ h.nd[w].key = k
     THEN [h |-> [h EXCEPT !.nd[w].value = v], r |-> w]
     ELSE LET c  == createNode(h, k, v, NULL, NULL, w)
              x  == c.r
              h1 == IF w # NULL THEN makeChild(c.h, w, x, h.nd[w].key > k)
                                ELSE [c.h EXCEPT !.root = x]
          IN [h |-> [h1 EXCEPT !.n = @ + 1], r |-> x]

\* removeNode that forgets n--
removeNode_noDecrement(h, w) ==
  LET z  == h.nd[w].parent
      x  == IF h.nd[w].left # NULL THEN h.nd[w].left ELSE h.nd[w].right
      h1 == makeChild(h, z, x, z = NULL \/ h.nd[z].left = w)
      h2 == IF z = NULL THEN [h1 EXCEPT !.root = x] ELSE h1
  IN [h |-> [h2 EXCEPT !.nd[w].live = FALSE], r |-> z]

\* removeNode that returns the node it deleted
removeNode_returnsRemoved(h, w) ==
  LET z  == h.nd[w].parent
      x  == IF h.nd[w].left # NULL THEN h.nd[w].left ELSE h.nd[w].right
      h1 == makeChild(h, z, x, z = NULL \/ h.nd[z].left = w)
      h2 == IF z = NULL THEN [h1 EXCEPT !.root = x] ELSE h1
  IN [h |-> [h2 EXCEPT !.nd[w].live = FALSE, !.n = @ - 1], r |-> w]

\* removeNode that returns the child that took w's place
removeNode_returnsChild(h, w) ==
  LET z  == h.nd[w].parent
      x  == IF h.nd[w].left # NULL THEN h.nd[w].left ELSE h.nd[w].right
      h1 == makeChild(h, z, x, z = NULL \/ h.nd[z].left = w)
      h2 == IF z = NULL THEN [h1 EXCEPT !.root = x] ELSE h1
  IN [h |-> [h2 EXCEPT !.nd[w].live = FALSE, !.n = @ - 1], r |-> x]

removeNode(h, w) ==
  LET z  == h.nd[w].parent
      x  == IF h.nd[w].left # NULL THEN h.nd[w].left ELSE h.nd[w].right
      h1 == makeChild(h, z, x, z = NULL \/ h.nd[z].left = w)
      h2 == IF z = NULL THEN [h1 EXCEPT !.root = x] ELSE h1
  IN [h |-> [h2 EXCEPT !.nd[w].live = FALSE, !.n = @ - 1,
                       !.dblFree = @ \/ ~h.nd[w].live,
                       !.uaf = @ \/ ~h.nd[w].live],
      r |-> z]

\* A loop body that moves neither z nor x
youngestAncestorBody_noStep(h, z, x) == [z |-> z, x |-> x]

\* The body of the while loop of youngestAncestorType: z = x; x = x->parent
youngestAncestorBody(h, z, x) == [z |-> x, x |-> h.nd[x].parent]

RECURSIVE youngestAncestorLoop(_, _, _, _)
youngestAncestorLoop(h, z, x, check_left) ==
  IF x # NULL /\ (IF check_left THEN h.nd[x].left ELSE h.nd[x].right) = z
  THEN LET loop(b) == youngestAncestorLoop(h, b.z, b.x, check_left)
       IN loop(youngestAncestorBody(h, z, x))
  ELSE x

youngestAncestorType(h, w, check_left) ==
  IF w = NULL THEN NULL ELSE youngestAncestorLoop(h, w, h.nd[w].parent, check_left)

RECURSIVE youngestDescendantType(_, _, _)
youngestDescendantType(h, w, check_left) ==
  IF w = NULL THEN NULL
  ELSE LET c == IF check_left THEN h.nd[w].left ELSE h.nd[w].right
       IN IF c # NULL THEN youngestDescendantType(h, c, check_left) ELSE w

successor(h, w) ==
  IF w = NULL THEN NULL
  ELSE IF h.nd[w].right # NULL THEN youngestDescendantType(h, h.nd[w].right, TRUE)
  ELSE youngestAncestorType(h, w, TRUE)

predecessor(h, w) ==
  IF w = NULL THEN NULL
  ELSE IF h.nd[w].left # NULL THEN youngestDescendantType(h, h.nd[w].left, FALSE)
  ELSE youngestAncestorType(h, w, FALSE)

\* eraseNode that copies only the successor's key in the two-child case
BSTMap_eraseNode_keepValue(h, k) ==
  LET w == findNode(h, k)
  IN IF w = NULL \/ h.nd[w].key # k
     THEN [h |-> h, r |-> w]
     ELSE IF h.nd[w].left # NULL /\ h.nd[w].right # NULL
          THEN LET s == successor(h, w)
               IN removeNode([h EXCEPT !.nd[w].key = h.nd[s].key], s)
          ELSE removeNode(h, w)

\* eraseNode that does not check that the node found holds the key
BSTMap_eraseNode_noKeyCheck(h, k) ==
  LET w == findNode(h, k)
  IN IF w = NULL
     THEN [h |-> h, r |-> w]
     ELSE IF h.nd[w].left # NULL /\ h.nd[w].right # NULL
          THEN LET s == successor(h, w)
               IN removeNode([h EXCEPT !.nd[w].key = h.nd[s].key,
                                       !.nd[w].value = h.nd[s].value], s)
          ELSE removeNode(h, w)

\* eraseNode that splices out the predecessor of a two-child node
BSTMap_eraseNode_usesPredecessor(h, k) ==
  LET w == findNode(h, k)
  IN IF w = NULL \/ h.nd[w].key # k
     THEN [h |-> h, r |-> w]
     ELSE IF h.nd[w].left # NULL /\ h.nd[w].right # NULL
          THEN LET s == predecessor(h, w)
               IN removeNode([h EXCEPT !.nd[w].key = h.nd[s].key,
                                       !.nd[w].value = h.nd[s].value], s)
          ELSE removeNode(h, w)

BSTMap_eraseNode(h, k) ==
  LET w == findNode(h, k)
  IN IF w = NULL \/ h.nd[w].key # k
     THEN [h |-> h, r |-> w]
     ELSE IF h.nd[w].left # NULL /\ h.nd[w].right # NULL
          THEN LET s == successor(h, w)
               IN removeNode([h EXCEPT !.nd[w].key = h.nd[s].key,
                                       !.nd[w].value = h.nd[s].value], s)
          ELSE removeNode(h, w)

size(h) == h.n

empty(h) == h.root = NULL

\* ------------------------------------------- measures used by the claims
\* The nodes of the subtree rooted at w, and the nodes reachable from the root
RECURSIVE Nodes(_, _)
Nodes(h, w) ==
  IF w = NULL THEN {} ELSE {w} \cup Nodes(h, h.nd[w].left) \cup Nodes(h, h.nd[w].right)

Reach(h) == Nodes(h, h.root)

\* The nodes of the subtree rooted at w in preorder
RECURSIVE Preorder(_, _)
Preorder(h, w) ==
  IF w = NULL THEN <<>>
  ELSE <<w>> \o Preorder(h, h.nd[w].left) \o Preorder(h, h.nd[w].right)

RECURSIVE SumValues(_, _)
SumValues(h, S) ==
  IF S = {} THEN 0
  ELSE LET a == CHOOSE b \in S : TRUE IN h.nd[a].value + SumValues(h, S \ {a})

ValuesOf(h, S) == {h.nd[a].value : a \in S}

\* x is the mathematical sum of the values of the nodes of S, decided
\* without leaving the range of int: a value of the sign of x is taken off x
\* at each step, and a sum of values of the other sign alone cannot be x
RECURSIVE SumIs(_, _, _)
SumIs(h, S, x) ==
  IF S = {} THEN x = 0
  ELSE LET same == {a \in S : (h.nd[a].value >= 0) = (x >= 0)}
       IN IF same = {} THEN FALSE
          ELSE LET a == CHOOSE b \in same : TRUE
               IN SumIs(h, S \ {a}, x - h.nd[a].value)

\* The statistics stored at w are the true count, sum, minimum and maximum
\* of the values in the subtree w roots
StatsTrue(h, w) ==
  LET S == Nodes(h, w)
      V == ValuesOf(h, S)
  IN /\ h.nd[w].num = Cardinality(S)
     /\ SumIs(h, S, h.nd[w].sum)
     /\ h.nd[w].min \in V /\ \A v \in V : h.nd[w].min <= v
     /\ h.nd[w].max \in V /\ \A v \in V : h.nd[w].max >= v

\* The structure of a node: everything but its value and statistics
Shape(r) == [key |-> r.key, left |-> r.left, right |-> r.right, parent |-> r.parent,
             ht |-> r.ht, live |-> r.live]

TwoChildren(h, w) == w # NULL /\ h.nd[w].left # NULL /\ h.nd[w].right # NULL

\* --------------------------------------------------------- AVLTreeMap
tallestChild(h, w, breakLeft) ==
  LET l_ht == height(h, h.nd[w].left)
      r_ht == height(h, h.nd[w].right)
  IN IF l_ht > r_ht \/ (l_ht = r_ht /\ breakLeft) THEN h.nd[w].left ELSE h.nd[w].right

resetHeight(h, w) ==
  use([h EXCEPT !.nd[w].ht = Max2(height(h, h.nd[w].left), height(h, h.nd[w].right)) + 1],
      {w, h.nd[w].left, h.nd[w].right})

\* balanced that tolerates a height difference of 2
balanced_offByOne(h, w) ==
  Abs(height(h, h.nd[w].left) - height(h, h.nd[w].right)) <= 2

balanced(h, w) ==
  Abs(height(h, h.nd[w].left) - height(h, h.nd[w].right)) <= 1

\* singleRotation that recomputes the height of y before that of z
AVLTreeMap_singleRotation_heightOrder(h, y, z) ==
  LET zp == h.nd[z].parent
      h1 == IF zp # NULL
            THEN makeChild(h, zp, y, h.nd[zp].left = z)
            ELSE [h EXCEPT !.nd[y].parent = NULL, !.root = y]
      rotateLeft == (y = h1.nd[z].right)
      t  == IF rotateLeft THEN h1.nd[y].left ELSE h1.nd[y].right
      h2 == makeChild(h1, z, t, ~rotateLeft)
      h3 == makeChild(h2, y, z, rotateLeft)
  IN resetHeight(resetHeight(h3, y), z)

AVLTreeMap_singleRotation(h, y, z) ==
  LET zp == h.nd[z].parent
      \* h1: the heap once y hangs where z hung
      rotate(h1) ==
        LET rotateLeft == (y = h1.nd[z].right)
            t == IF rotateLeft THEN h1.nd[y].left ELSE h1.nd[y].right
        IN resetHeight(resetHeight(
             makeChild(makeChild(h1, z, t, ~rotateLeft), y, z, rotateLeft), z), y)
  IN rotate(IF zp # NULL
            THEN makeChild(h, zp, y, h.nd[zp].left = z)
            ELSE [h EXCEPT !.nd[y].parent = NULL, !.root = y])

\* ------------------------------------------------------- TreeMapStats
\* Node::Stats::updateStats applied to the Stats of node u, through
\* Node::updateInfo(left, right, value).  Every node is built by the
\* constructor that allocates info, so the branch for a null info is dead.
updateInfo(h, u, left, right, value) ==
  LET newNum == 1 + (IF left # NULL THEN h.nd[left].num ELSE 0)
                  + (IF right # NULL THEN h.nd[right].num ELSE 0)
      lSum   == IF left # NULL THEN h.nd[left].sum ELSE 0
      rSum   == IF right # NULL THEN h.nd[right].sum ELSE 0
      newSum == AddInt(AddInt(value, lSum), rSum)
      newMin == Min2(value, Min2(IF left # NULL THEN h.nd[left].min ELSE value,
                                 IF right # NULL THEN h.nd[right].min ELSE value))
      newMax == Max2(value, Max2(IF left # NULL THEN h.nd[left].max ELSE value,
                                 IF right # NULL THEN h.nd[right].max ELSE value))
  IN [h EXCEPT !.nd[u].num = newNum, !.nd[u].sum = newSum,
               !.nd[u].min = newMin, !.nd[u].max = newMax,
               !.upd[u] = @ + 1,
               !.ovf = @ \/ Overflows(value, lSum) \/ Overflows(AddInt(value, lSum), rSum),
               !.uaf = @ \/ \E a \in {u, left, right} \ {NULL} : ~h.nd[a].live]

RECURSIVE updateTree(_, _)
updateTree(h, w) ==
  IF w = NULL THEN h
  ELSE LET l == h.nd[w].left
           r == h.nd[w].right
           p == h.nd[w].parent
       IN updateTree(updateInfo(h, w, l, r, h.nd[w].value), p)

\* TreeMapStats::singleRotation, the final overrider every rotation goes
\* through (rebalance and doubleRotation call it virtually)
\* singleRotation that does not recompute the statistics of z
singleRotation_noZ(h, y, z) ==
  LET h1 == AVLTreeMap_singleRotation(h, y, z)
      h3 == IF y # NULL THEN updateTree(h1, y) ELSE h1
  IN [h3 EXCEPT !.rot = @ + 1]

singleRotation(h, y, z) ==
  LET \* h1: the heap after AVLTreeMap::singleRotation(y, z)
      stats(h1) ==
        LET h2 == updateInfo(h1, z, h1.nd[z].left, h1.nd[z].right, h1.nd[z].value)
        IN IF y # NULL THEN updateTree(h2, y) ELSE h2
      \* h3: the heap as singleRotation returns
      record(h3) ==
        [h3 EXCEPT !.rot = @ + 1,
                   !.rotStats = @ /\ StatsTrue(h3, y) /\ StatsTrue(h3, z)]
  IN record(stats(AVLTreeMap_singleRotation(h, y, z)))

\* doubleRotation that stops after rotating x above y
doubleRotation_once(h, x, y, z) == singleRotation(h, x, y)

doubleRotation(h, x, y, z) == singleRotation(singleRotation(h, x, y), x, z)

\* The PRECONDITION comment of rebalance, with what its body dereferences:
\* the children of z differ in height by exactly 2, every node below z is
\* balanced with its height properly set, y is a child of z and x of y.
RebalancePre(h, z, y, x) ==
  /\ Abs(height(h, h.nd[z].left) - height(h, h.nd[z].right)) = 2
  /\ \A a \in Nodes(h, z) \ {z} :
       /\ balanced(h, a)
       /\ h.nd[a].ht = 1 + Max2(height(h, h.nd[a].left), height(h, h.nd[a].right))
  /\ y # NULL /\ y \in {h.nd[z].left, h.nd[z].right}
  /\ x # NULL /\ x \in {h.nd[y].left, h.nd[y].right}

\* The OUTPUT and POSTCONDITION comments of rebalance: in the heap hr it
\* leaves, r hangs where z hung in h (or is the root), roots a subtree of
\* the same nodes and keys, and that subtree is a proper AVL subtree.
RebalancePost(h, hr, z, r) ==
  LET zp == h.nd[z].parent
  IN /\ hr.nd[r].parent = zp
     /\ IF zp = NULL THEN hr.root = r
        ELSE /\ hr.root = h.root
             /\ IF h.nd[zp].left = z
                THEN hr.nd[zp].left = r /\ hr.nd[zp].right = h.nd[zp].right
                ELSE hr.nd[zp].right = r /\ hr.nd[zp].left = h.nd[zp].left
     /\ Nodes(hr, r) = Nodes(h, z)
     /\ Len(Preorder(hr, r)) = Cardinality(Nodes(h, z))
     /\ \A a \in Nodes(h, z) : hr.nd[a].key = h.nd[a].key /\ hr.nd[a].value = h.nd[a].value
     /\ \A a \in Nodes(hr, r) :
          /\ \A b \in Nodes(hr, hr.nd[a].left) : hr.nd[b].key < hr.nd[a].key
          /\ \A b \in Nodes(hr, hr.nd[a].right) : hr.nd[b].key > hr.nd[a].key
          /\ balanced(hr, a)
          /\ hr.nd[a].ht = 1 + Max2(height(hr, hr.nd[a].left), height(hr, hr.nd[a].right))

\* rebalance without the second tallestChild call made when y is the right
\* child of z
rebalance_noTieBreak(h, z) ==
  LET y  == tallestChild(h, z, TRUE)
      x  == tallestChild(h, y, TRUE)
      single == (y = h.nd[z].left /\ x = h.nd[y].left) \/
                (y = h.nd[z].right /\ x = h.nd[y].right)
      tied == height(h, h.nd[y].left) = height(h, h.nd[y].right)
      hc == [h EXCEPT !.reb = @ + 1,
                      !.preOK = @ /\ RebalancePre(h, z, y, x),
                      !.tie = @ \/ tied,
                      !.tieDouble = @ \/ (tied /\ ~single)]
      post(rb) ==
        [h |-> [rb.h EXCEPT !.postOK = @ /\ RebalancePost(h, rb.h, z, rb.r)], r |-> rb.r]
  IN post(IF single
          THEN [h |-> singleRotation(hc, y, z), r |-> y]
          ELSE [h |-> doubleRotation(hc, x, y, z), r |-> x])

rebalance(h, z) ==
  LET y  == tallestChild(h, z, TRUE)
      x0 == tallestChild(h, y, TRUE)
      x  == IF h.nd[z].right = y THEN tallestChild(h, y, FALSE) ELSE x0
      single == (y = h.nd[z].left /\ x = h.nd[y].left) \/
                (y = h.nd[z].right /\ x = h.nd[y].right)
      tied == height(h, h.nd[y].left) = height(h, h.nd[y].right)
      hc == [h EXCEPT !.reb = @ + 1,
                      !.preOK = @ /\ RebalancePre(h, z, y, x),
                      !.tie = @ \/ tied,
                      !.tieDouble = @ \/ (tied /\ ~single),
                      !.uaf = @ \/ \E a \in {z, y, x, h.nd[z].left, h.nd[z].right,
                                               h.nd[y].left, h.nd[y].right} \ {NULL} :
                                       ~h.nd[a].live]
      \* rb: the heap after the rotation and the node r to return
      post(rb) ==
        [h |-> [rb.h EXCEPT !.postOK = @ /\ RebalancePost(h, rb.h, z, rb.r)], r |-> rb.r]
  IN post(IF single
          THEN [h |-> singleRotation(hc, y, z), r |-> y]
          ELSE [h |-> doubleRotation(hc, x, y, z), r |-> x])

\* number of nodes on the parent chain from x to the root
RECURSIVE Depth(_, _)
Depth(h, x) == IF x = NULL THEN 0 ELSE 1 + Depth(h, h.nd[x].parent)

\* rebalanceAncestors that handles w and never climbs to its parent
rebalanceAncestors_noClimb(h, w) ==
  IF w = NULL THEN h
  ELSE IF balanced(h, w) THEN resetHeight(h, w)
  ELSE LET rb == rebalance(h, w)
       IN IF h.nd[w].parent = NULL THEN [rb.h EXCEPT !.root = rb.r] ELSE rb.h

\* One iteration of the while loop of rebalanceAncestors at a node w that
\* is not NULL: the heap it leaves and, as r, the next value of w
rebalanceAncestorsBody(h, w) ==
  LET x == h.nd[w].parent
      old_height == height(h, w)
      \* rb: what rebalance(w) returned
      newRoot(rb) ==
        [h |-> [(IF x = NULL THEN [rb.h EXCEPT !.root = rb.r] ELSE rb.h)
                  EXCEPT !.rebStop = @ /\ (old_height = height(rb.h, rb.r))],
         r |-> rb.r]
      \* f: the heap and the node w after the if/else of the loop body
      next(f) ==
        LET stop == (old_height = height(f.h, f.r))
        IN [h |-> IF stop /\ x # NULL
                  THEN [f.h EXCEPT !.early = Depth(f.h, x), !.earlyRot = ~balanced(h, w)]
                  ELSE f.h,
            r |-> IF stop THEN NULL ELSE x]
  IN next(IF balanced(h, w)
          THEN [h |-> resetHeight(h, w), r |-> w]
          ELSE newRoot(rebalance(use(h, {w, h.nd[w].left, h.nd[w].right}), w)))

RECURSIVE rebalanceAncestors(_, _)
rebalanceAncestors(h, w) ==
  IF w = NULL THEN h
  ELSE LET loop(b) == rebalanceAncestors(b.h, b.r)
       IN loop(rebalanceAncestorsBody(h, w))

AVLTreeMap_putNode(h, k, v) ==
  LET \* b: the heap and the node z that BSTMap::putNode returned
      ancestors(b) ==
        [h |-> IF b.r # NULL THEN rebalanceAncestors(b.h, b.h.nd[b.r].parent) ELSE b.h,
         r |-> b.r]
  IN ancestors(BSTMap_putNode(h, k, v))

AVLTreeMap_eraseNode(h, k) ==
  LET \* b: the heap and the node z that BSTMap::eraseNode returned
      ancestors(b) == [h |-> rebalanceAncestors(b.h, b.r), r |-> b.r]
  IN ancestors(BSTMap_eraseNode(h, k))

\* putNode that adds the value to the running count and sum of the
\* ancestors of the node instead of recomputing them from the children
RECURSIVE addUp(_, _, _)
addUp(h, w, value) ==
  IF w = NULL THEN h
  ELSE addUp([h EXCEPT !.nd[w].num = @ + 1, !.nd[w].sum = @ + value],
             h.nd[w].parent, value)

TreeMapStats_putNode_incremental(h, key, value) ==
  LET a == AVLTreeMap_putNode(h, key, value)
      w == a.r
  IN [h |-> IF w # NULL THEN addUp(a.h, a.h.nd[w].parent, value) ELSE a.h, r |-> w]

\* putNode that runs the final statistics walk twice
TreeMapStats_putNode_twoWalks(h, key, value) ==
  LET update(a) ==
        [h |-> IF a.r # NULL THEN updateTree(updateTree(a.h, a.r), a.r) ELSE a.h, r |-> a.r]
  IN update(AVLTreeMap_putNode(h, key, value))

TreeMapStats_putNode(h, key, value) ==
  LET \* a: the heap and the node w that AVLTreeMap::putNode returned
      update(a) == [h |-> IF a.r # NULL THEN updateTree(a.h, a.r) ELSE a.h, r |-> a.r]
  IN update(AVLTreeMap_putNode(h, key, value))

\* eraseNode that does not run the statistics walk
TreeMapStats_eraseNode_noUpdate(h, key) == AVLTreeMap_eraseNode(h, key)

TreeMapStats_eraseNode(h, key) ==
  LET \* a: the heap and the node w that AVLTreeMap::eraseNode returned
      update(a) == [h |-> IF a.r # NULL THEN updateTree(a.h, a.r) ELSE a.h, r |-> a.r]
  IN update(AVLTreeMap_eraseNode(h, key))

\* ------------------------------------------------ address renumbering
\* Addresses carry no information beyond identity and no address is kept
\* outside the heap between two operations, so the heap an operation leaves
\* is stored with its nodes renumbered in preorder from the root (nodes not
\* reachable from the root follow in address order) and freed slots cleared.
RECURSIVE Ascending(_)
Ascending(S) ==
  IF S = {} THEN <<>>
  ELSE LET m == CHOOSE a \in S : \A b \in S : a <= b
       IN <<m>> \o Ascending(S \ {m})

Canon(h) ==
  LET po    == Preorder(h, h.root)
      rest  == Addr \ {po[i] : i \in 1..Len(po)}
      order == po \o Ascending(rest)
      ren(p) == IF p = NULL THEN NULL
                ELSE CHOOSE i \in 1..Len(order) :
                       order[i] = p /\ \A j \in 1..(i - 1) : order[j] # p
  IN [nd |-> [i \in Addr |->
                LET r == h.nd[order[i]]
                IN IF r.live
                   THEN [r EXCEPT !.left = ren(@), !.right = ren(@), !.parent = ren(@)]
                   ELSE Freed],
      root |-> ren(h.root), n |-> h.n,
      rot |-> 0, reb |-> 0, early |-> 0, earlyRot |-> FALSE,
      preOK |-> TRUE, postOK |-> TRUE, tie |-> FALSE, tieDouble |-> FALSE,
      rotStats |-> TRUE, upd |-> [a \in Addr |-> 0], rebStop |-> TRUE,
   uaf |-> FALSE, dblFree |-> FALSE, ovf |-> FALSE]

\* ----------------------------------------------------- the state machine
\* tree: the map between operations; pre: the map before the last operation;
\* raw: the heap exactly as the last operation left it, with its counters;
\* op: the last operation, its arguments and the node it returned; ref: what
\* a plain key-to-value map holds after the same operations.
\* walk: the call in progress when the operations are followed one loop
\* iteration at a time (its position pc, its arguments, the heap h it works
\* on, the loop variables cur and prev, the node ret to return); Idle
\* between calls.
Idle ==
  [pc |-> "idle", name |-> "none", k |-> 0, v |-> 0, h |-> EmptyMap,
   cur |-> NULL, prev |-> NULL, ret |-> NULL]

Init ==
  /\ tree = EmptyMap
  /\ pre = EmptyMap
  /\ raw = EmptyMap
  /\ op = [name |-> "init", k |-> 0, v |-> 0, r |-> NULL]
  /\ ref = [k \in {} |-> 0]
  /\ walk = Idle

\* BSTMap::put -> TreeMapStats::putNode
put(k, v) ==
  LET done(res) ==
        /\ raw' = res.h
        /\ tree' = Canon(res.h)
        /\ pre' = tree
        /\ op' = [name |-> "put", k |-> k, v |-> v, r |-> res.r]
        /\ ref' = [x \in (DOMAIN ref) \cup {k} |-> IF x = k THEN v ELSE ref[x]]
        /\ walk' = Idle
  IN done(TreeMapStats_putNode(tree, k, v))

\* BSTMap::erase -> TreeMapStats::eraseNode
erase(k) ==
  LET done(res) ==
        /\ raw' = res.h
        /\ tree' = Canon(res.h)
        /\ pre' = tree
        /\ op' = [name |-> "erase", k |-> k, v |-> 0, r |-> res.r]
        /\ ref' = [x \in (DOMAIN ref) \ {k} |-> ref[x]]
        /\ walk' = Idle
  IN done(TreeMapStats_eraseNode(tree, k))

Next ==
  \/ \E k \in Keys, v \in Vals : put(k, v)
  \/ \E k \in Keys : erase(k)

Spec == Init /\ [][Next]_vars

NextKeyed ==
  \/ \E k \in KeyedKeys : put(k, k)
  \/ \E k \in KeyedKeys : erase(k)

SpecKeyed == Init /\ [][NextKeyed]_vars

\* ------------------------------------------- values at the ends of int
WideVals == {1, IntMax}

\* put when an addition of updateStats may leave the range of int: the
\* behaviour is undefined, the build either wraps the sum around or aborts
\* the program at the addition
putWide(k, v) ==
  /\ op.name # "abort"
  /\ LET wrapped(res) ==
           /\ raw' = res.h
           /\ tree' = Canon(res.h)
           /\ pre' = tree
           /\ op' = [name |-> "put", k |-> k, v |-> v, r |-> res.r]
           /\ ref' = [x \in (DOMAIN ref) \cup {k} |-> IF x = k THEN v ELSE ref[x]]
           /\ walk' = Idle
         aborted(res) ==
           /\ res.h.ovf
           /\ raw' = res.h
           /\ pre' = tree
           /\ op' = [name |-> "abort", k |-> k, v |-> v, r |-> NULL]
           /\ UNCHANGED <<tree, ref, walk>>
         outcome(res) == wrapped(res) \/ aborted(res)
     IN outcome(TreeMapStats_putNode(tree, k, v))

eraseWide(k) ==
  /\ op.name # "abort"
  /\ LET wrapped(res) ==
           /\ raw' = res.h
           /\ tree' = Canon(res.h)
           /\ pre' = tree
           /\ op' = [name |-> "erase", k |-> k, v |-> 0, r |-> res.r]
           /\ ref' = [x \in (DOMAIN ref) \ {k} |-> ref[x]]
           /\ walk' = Idle
         aborted(res) ==
           /\ res.h.ovf
           /\ raw' = res.h
           /\ pre' = tree
           /\ op' = [name |-> "abort", k |-> k, v |-> 0, r |-> NULL]
           /\ UNCHANGED <<tree, ref, walk>>
         outcome(res) == wrapped(res) \/ aborted(res)
     IN outcome(TreeMapStats_eraseNode(tree, k))

NextWide ==
  \/ \E k \in Keys, v \in WideVals : putWide(k, v)
  \/ \E k \in Keys : eraseWide(k)

SpecWide == Init /\ [][NextWide]_vars

\* --------------------------------- the operations one loop iteration a step
\* BSTMap::deleteAll: one iteration of its while loop at a node w that is
\* not NULL; r is the next value of w.  root is not assigned.
deleteAllBody(h, w) ==
  IF h.nd[w].left = NULL /\ h.nd[w].right = NULL
  THEN LET p  == h.nd[w].parent
           h1 == IF p # NULL
                 THEN IF h.nd[p].left = w THEN [h EXCEPT !.nd[p].left = NULL]
                                          ELSE [h EXCEPT !.nd[p].right = NULL]
                 ELSE h
       IN [h |-> [use(h1, {w, p}) EXCEPT !.nd[w].live = FALSE, !.n = @ - 1,
                                         !.dblFree = @ \/ ~h.nd[w].live],
           r |-> p]
  ELSE [h |-> use(h, {w}),
        r |-> IF h.nd[w].left # NULL THEN h.nd[w].left ELSE h.nd[w].right]

RECURSIVE deleteAllLoop(_, _)
deleteAllLoop(h, w) ==
  IF w = NULL THEN h
  ELSE LET loop(b) == deleteAllLoop(b.h, b.r)
       IN loop(deleteAllBody(h, w))

deleteAll(h) == deleteAllLoop(h, h.root)

\* put(k, k) or erase(k) is called: findNode starts at the root
Begin(name, k) ==
  /\ walk.pc = "idle"
  /\ walk' = [pc |-> "search", name |-> name, k |-> k, v |-> k, h |-> tree,
              cur |-> tree.root, prev |-> NULL, ret |-> NULL]
  /\ UNCHANGED <<tree, pre, raw, op, ref>>

\* findNode: one iteration of its while loop
SearchStep ==
  /\ walk.pc = "search"
  /\ IF walk.cur = NULL THEN FALSE ELSE walk.h.nd[walk.cur].key # walk.k
  /\ walk' = [walk EXCEPT !.prev = walk.cur,
                           !.cur = IF walk.h.nd[walk.cur].key > walk.k
                                   THEN walk.h.nd[walk.cur].left
                                   ELSE walk.h.nd[walk.cur].right]
  /\ UNCHANGED <<tree, pre, raw, op, ref>>

\* findNode returns and BSTMap::putNode / BSTMap::eraseNode edits the tree;
\* AVLTreeMap::putNode / eraseNode then enters rebalanceAncestors
Edit ==
  /\ walk.pc = "search"
  /\ IF walk.cur = NULL THEN TRUE ELSE walk.h.nd[walk.cur].key = walk.k
  /\ LET enter(b) ==
           [walk EXCEPT !.pc = "rebalance", !.h = b.h, !.ret = b.r, !.prev = NULL,
                        !.cur = IF walk.name = "put"
                                THEN (IF b.r # NULL THEN b.h.nd[b.r].parent ELSE NULL)
                                ELSE b.r]
     IN walk' = enter(IF walk.name = "put"
                      THEN BSTMap_putNode(walk.h, walk.k, walk.v)
                      ELSE BSTMap_eraseNode(walk.h, walk.k))
  /\ UNCHANGED <<tree, pre, raw, op, ref>>

\* rebalanceAncestors: one iteration of its while loop
RebalanceStep ==
  /\ walk.pc = "rebalance"
  /\ walk.cur # NULL
  /\ LET after(b) == [walk EXCEPT !.h = b.h, !.cur = b.r, !.prev = walk.cur]
     IN walk' = after(rebalanceAncestorsBody(walk.h, walk.cur))
  /\ UNCHANGED <<tree, pre, raw, op, ref>>

\* rebalanceAncestors returns; TreeMapStats::putNode / eraseNode calls
\* updateTree on the returned node
RebalanceDone ==
  /\ walk.pc = "rebalance"
  /\ walk.cur = NULL
  /\ walk' = [walk EXCEPT !.pc = "update", !.cur = walk.ret, !.prev = NULL]
  /\ UNCHANGED <<tree, pre, raw, op, ref>>

\* updateTree: one iteration of its while loop
UpdateStep ==
  /\ walk.pc = "update"
  /\ walk.cur # NULL
  /\ LET u == walk.cur
         h == walk.h
     IN walk' = [walk EXCEPT !.h = updateInfo(h, u, h.nd[u].left, h.nd[u].right,
                                               h.nd[u].value),
                             !.cur = h.nd[u].parent, !.prev = u]
  /\ UNCHANGED <<tree, pre, raw, op, ref>>

\* updateTree returns and with it put / erase
Finish ==
  /\ walk.pc = "update"
  /\ walk.cur = NULL
  /\ raw' = walk.h
  /\ tree' = Canon(walk.h)
  /\ pre' = tree
  /\ op' = [name |-> walk.name, k |-> walk.k,
            v |-> IF walk.name = "put" THEN walk.v ELSE 0, r |-> walk.ret]
  /\ ref' = IF walk.name = "put"
            THEN [x \in (DOMAIN ref) \cup {walk.k} |-> IF x = walk.k THEN walk.v ELSE ref[x]]
            ELSE [x \in (DOMAIN ref) \ {walk.k} |-> ref[x]]
  /\ walk' = Idle

\* youngestAncestorType(w, check_left) is called, as successor (check_left
\* true) and predecessor (false) do for a node without right / left child
BeginClimb(w, check_left) ==
  /\ walk.pc = "idle"
  /\ w \in Reach(tree)
  /\ walk' = [pc |-> "climb", name |-> IF check_left THEN "successor" ELSE "predecessor",
              k |-> 0, v |-> 0, h |-> tree, cur |-> tree.nd[w].parent, prev |-> w,
              ret |-> NULL]
  /\ UNCHANGED <<tree, pre, raw, op, ref>>

\* youngestAncestorType: one iteration of its while loop
ClimbStep ==
  /\ walk.pc = "climb"
  /\ IF walk.cur = NULL THEN FALSE
     ELSE (IF walk.name = "successor" THEN walk.h.nd[walk.cur].left
                                      ELSE walk.h.nd[walk.cur].right) = walk.prev
  /\ LET after(b) == [walk EXCEPT !.prev = b.z, !.cur = b.x]
     IN walk' = after(youngestAncestorBody(walk.h, walk.prev, walk.cur))
  /\ UNCHANGED <<tree, pre, raw, op, ref>>

\* youngestAncestorType returns x
ClimbDone ==
  /\ walk.pc = "climb"
  /\ IF walk.cur = NULL THEN TRUE
     ELSE (IF walk.name = "successor" THEN walk.h.nd[walk.cur].left
                                      ELSE walk.h.nd[walk.cur].right) # walk.prev
  /\ walk' = Idle
  /\ UNCHANGED <<tree, pre, raw, op, ref>>

\* ~BSTMap calls deleteAll: w = root
BeginDeleteAll ==
  /\ walk.pc = "idle"
  /\ walk' = [pc |-> "deleteAll", name |-> "deleteAll", k |-> 0, v |-> 0, h |-> tree,
              cur |-> tree.root, prev |-> NULL, ret |-> NULL]
  /\ UNCHANGED <<tree, pre, raw, op, ref>>

\* deleteAll: one iteration of its while loop
DeleteAllStep ==
  /\ walk.pc = "deleteAll"
  /\ walk.cur # NULL
  /\ LET after(b) == [walk EXCEPT !.h = b.h, !.cur = b.r, !.prev = walk.cur]
     IN walk' = after(deleteAllBody(walk.h, walk.cur))
  /\ UNCHANGED <<tree, pre, raw, op, ref>>

\* deleteAll returns; the map is destroyed and nothing runs on it any more
DeleteAllDone ==
  /\ walk.pc = "deleteAll"
  /\ walk.cur = NULL
  /\ walk' = [walk EXCEPT !.pc = "destroyed"]
  /\ UNCHANGED <<tree, pre, raw, op, ref>>

\* The steps inside a call
WalkStep ==
  \/ SearchStep
  \/ Edit
  \/ RebalanceStep
  \/ RebalanceDone
  \/ UpdateStep
  \/ Finish
  \/ ClimbStep
  \/ ClimbDone
  \/ DeleteAllStep
  \/ DeleteAllDone

NextWalk ==
  \/ \E k \in WalkKeys : Begin("put", k)
  \/ \E k \in WalkKeys : Begin("erase", k)
  \/ \E w \in Addr, check_left \in BOOLEAN : BeginClimb(w, check_left)
  \/ BeginDeleteAll
  \/ WalkStep

\* A call is in progress
InCall == walk.pc \notin {"idle", "destroyed"}

\* The program is sequential: a call that has begun keeps running, so each
\* step of a call is weakly fair.  For RebalanceStep and Finish the weak
\* fairness is written out with the condition under which the step is
\* enabled.
SpecWalk ==
  /\ Init /\ [][NextWalk]_vars
  /\ WF_vars(SearchStep) /\ WF_vars(Edit)
  /\ WF_vars(RebalanceDone) /\ WF_vars(UpdateStep)
  /\ WF_vars(ClimbStep) /\ WF_vars(ClimbDone)
  /\ WF_vars(DeleteAllStep) /\ WF_vars(DeleteAllDone)
  /\ ([]<>~(walk.pc = "rebalance" /\ walk.cur # NULL) \/ []<><<RebalanceStep>>_vars)
  /\ ([]<>~(walk.pc = "update" /\ walk.cur = NULL) \/ []<><<Finish>>_vars)

\* --------------------------------------------------------------- claims
\* C1: for every key k, find(k) returns a live node holding k with the value
\* of the last put(k, v) not followed by erase(k), and NULL when k was never
\* put or was erased after its last put (ref is the reference map).
MapSemantics ==
  \A k \in AllKeys :
    LET w == find(tree, k)
    IN IF k \in DOMAIN ref
       THEN w # NULL /\ tree.nd[w].live /\ tree.nd[w].key = k /\ tree.nd[w].value = ref[k]
       ELSE w = NULL

\* C1 witness: a two-child erase of a present key whose successor holds
\* another value, after which find misses the key and other keys remain.
MapSemanticsWitness ==
  /\ op.name = "erase"
  /\ TwoChildren(pre, find(pre, op.k))
  /\ find(tree, op.k) = NULL
  /\ \E k \in DOMAIN ref : ref[k] # pre.nd[find(pre, op.k)].value

\* C2: for every reachable node, every key in its left subtree is smaller
\* and every key in its right subtree is larger than its own key.
BSTOrdering ==
  \A w \in Reach(tree) :
    /\ \A x \in Nodes(tree, tree.nd[w].left) : tree.nd[x].key < tree.nd[w].key
    /\ \A x \in Nodes(tree, tree.nd[w].right) : tree.nd[x].key > tree.nd[w].key

\* C2 witness: the erase of a node with two children that was followed by a
\* double rotation.
BSTOrderingWitness ==
  /\ op.name = "erase"
  /\ TwoChildren(pre, find(pre, op.k))
  /\ raw.reb >= 1
  /\ raw.rot = 2 * raw.reb

\* C3: the stored heights of the two children of every reachable node
\* differ by at most 1.
AVLBalance ==
  \A w \in Reach(tree) :
    LET l == height(tree, tree.nd[w].left)
        r == height(tree, tree.nd[w].right)
    IN l - r \in {0 - 1, 0, 1}

\* C3 witness: an erase whose rebalancing walk stopped at a node it had just
\* rotated, the height being unchanged, with ancestors left unvisited above.
AVLBalanceWitness ==
  /\ op.name = "erase"
  /\ find(pre, op.k) # NULL
  /\ raw.earlyRot
  /\ raw.early >= 1

\* C4: the stats of every reachable node are the count, sum, minimum and
\* maximum of the values of its subtree.
StatsCorrect ==
  \A w \in Reach(tree) :
    LET S == Nodes(tree, w)
        V == ValuesOf(tree, S)
    IN /\ tree.nd[w].num = Cardinality(S)
       /\ tree.nd[w].sum = SumValues(tree, S)
       /\ tree.nd[w].min \in V /\ \A v \in V : tree.nd[w].min <= v
       /\ tree.nd[w].max \in V /\ \A v \in V : tree.nd[w].max >= v

\* C4 witness: a two-child erase followed by a rotation, in a map whose
\* values are not all equal.
StatsCorrectWitness ==
  /\ op.name = "erase"
  /\ TwoChildren(pre, find(pre, op.k))
  /\ raw.rot >= 1
  /\ tree.nd[tree.root].min # tree.nd[tree.root].max

\* C5: the stored height of every reachable node is 1 + the larger of the
\* stored heights of its children, an absent child counting 0.
HeightCorrect ==
  \A w \in Reach(tree) :
    tree.nd[w].ht = 1 + Max2(height(tree, tree.nd[w].left), height(tree, tree.nd[w].right))

\* C5 witness: a put of a new key whose rebalancing walk stopped early with
\* at least two ancestors left unvisited above.
HeightCorrectWitness ==
  /\ op.name = "put"
  /\ find(pre, op.k) = NULL
  /\ raw.early >= 2

\* C6: size() is the number of reachable nodes, the root's count (0 for the
\* empty map); a put of a new key adds 1, a put of a present key and an
\* erase of an absent key add 0, an erase of a present key subtracts 1.
SizeConsistent ==
  /\ size(tree) = Cardinality(Reach(tree))
  /\ size(tree) = IF tree.root # NULL THEN tree.nd[tree.root].num ELSE 0
  /\ empty(tree) <=> size(tree) = 0
  /\ op.name = "put" =>
       size(tree) = size(pre) + (IF find(pre, op.k) = NULL THEN 1 ELSE 0)
  /\ op.name = "erase" =>
       size(tree) = size(pre) - (IF find(pre, op.k) = NULL THEN 0 ELSE 1)

\* C6 witness: an erase of a present key that leaves at least two entries.
SizeConsistentWitness ==
  /\ op.name = "erase"
  /\ find(pre, op.k) # NULL
  /\ size(tree) = size(pre) - 1
  /\ size(tree) >= 2

\* C7: the root has no parent, every present child of a reachable node has
\* that node as its parent, and no node is reached twice from the root.
ParentLinks ==
  /\ tree.root # NULL => tree.nd[tree.root].parent = NULL
  /\ \A w \in Reach(tree) :
       /\ tree.nd[w].live
       /\ tree.nd[w].left # NULL => tree.nd[tree.nd[w].left].parent = w
       /\ tree.nd[w].right # NULL => tree.nd[tree.nd[w].right].parent = w
       /\ tree.nd[w].left # NULL => tree.nd[w].left # tree.nd[w].right
  /\ \A w1, w2 \in Reach(tree) :
       w1 # w2 =>
         {tree.nd[w1].left, tree.nd[w1].right} \cap
         {tree.nd[w2].left, tree.nd[w2].right} \subseteq {NULL}
  /\ Len(Preorder(tree, tree.root)) = Cardinality(Reach(tree))

\* C7 witness: a put that ended in a double rotation below the root.
ParentLinksWitness ==
  /\ op.name = "put"
  /\ raw.rot = 2
  /\ raw.early >= 1

\* C8: an erase of a key that is not in the map leaves every node, the root
\* and the size exactly as they were.
EraseAbsentNoop ==
  (op.name = "erase" /\ find(pre, op.k) = NULL) =>
    /\ raw.nd = pre.nd
    /\ raw.root = pre.root
    /\ raw.n = pre.n
    /\ tree = pre

\* C8 witness: an erase of an absent key whose search ended at a node below
\* the root, from which the two walks then ran.
EraseAbsentNoopWitness ==
  /\ op.name = "erase"
  /\ find(pre, op.k) = NULL
  /\ op.r # NULL
  /\ op.r # pre.root

\* C9: a put of a key already in the map changes the value of its node and
\* nothing else: no node appears or disappears, keys, links, heights, root
\* and size stay, no rotation runs, the other values stay.
PutExistingInPlace ==
  (op.name = "put" /\ find(pre, op.k) # NULL) =>
    LET w == find(pre, op.k)
    IN /\ \A a \in Addr : Shape(raw.nd[a]) = Shape(pre.nd[a])
       /\ raw.root = pre.root
       /\ raw.n = pre.n
       /\ raw.rot = 0 /\ raw.reb = 0
       /\ raw.nd[w].value = op.v
       /\ op.r = w
       /\ \A a \in Addr \ {w} : raw.nd[a].value = pre.nd[a].value

\* C9 witness: a put that changed the value of a present key below the root.
PutExistingInPlaceWitness ==
  /\ op.name = "put"
  /\ find(pre, op.k) # NULL
  /\ find(pre, op.k) # pre.root
  /\ pre.nd[find(pre, op.k)].value # op.v

\* C10: after put(k, v), a second put(k, v) leaves the map as it is.
PutIdempotent ==
  op.name = "put" =>
    LET again == TreeMapStats_putNode(tree, op.k, op.v).h
    IN /\ again.nd = tree.nd
       /\ again.root = tree.root
       /\ again.n = tree.n
       /\ Canon(again) = tree

\* C10 witness: a put of a new key that rotated and left the key below the
\* root.
PutIdempotentWitness ==
  /\ op.name = "put"
  /\ find(pre, op.k) = NULL
  /\ raw.rot >= 1
  /\ find(tree, op.k) # tree.root

\* C11: after put(k, v) of a key that was absent and whose insertion
\* rotated nothing, erase(k) gives back the map as it was before the put:
\* same shape, keys, values, stored heights, statistics and size.
PutEraseRoundTrip ==
  (op.name = "put" /\ find(pre, op.k) = NULL /\ raw.rot = 0) =>
    LET back == TreeMapStats_eraseNode(Fresh(raw), op.k).h
    IN /\ Canon(back) = pre
       /\ Canon(TreeMapStats_eraseNode(tree, op.k).h) = pre
       /\ back.rot = 0
       /\ \A a \in Reach(pre) : back.nd[a] = pre.nd[a]
       /\ back.root = pre.root
       /\ back.n = pre.n

\* C11 witness: such a put below the root of a map of at least three
\* entries, which raised the height of an ancestor.
PutEraseRoundTripWitness ==
  /\ op.name = "put"
  /\ find(pre, op.k) = NULL
  /\ raw.rot = 0
  /\ size(pre) >= 3
  /\ \E a \in Reach(pre) : raw.nd[a].ht # pre.nd[a].ht

\* C12: for every node w of the tree, successor(w) is the node with the
\* smallest key greater than w's key and predecessor(w) the node with the
\* largest key smaller than w's key, each NULL exactly when there is no such
\* node; both are NULL for w = NULL.
SuccessorPredecessorCorrect ==
  /\ successor(tree, NULL) = NULL
  /\ predecessor(tree, NULL) = NULL
  /\ \A w \in Reach(tree) :
       LET above == {a \in Reach(tree) : tree.nd[a].key > tree.nd[w].key}
           below == {a \in Reach(tree) : tree.nd[a].key < tree.nd[w].key}
       IN /\ IF above = {} THEN successor(tree, w) = NULL
             ELSE /\ successor(tree, w) \in above
                  /\ \A a \in above : tree.nd[successor(tree, w)].key <= tree.nd[a].key
          /\ IF below = {} THEN predecessor(tree, w) = NULL
             ELSE /\ predecessor(tree, w) \in below
                  /\ \A a \in below : tree.nd[predecessor(tree, w)].key >= tree.nd[a].key

\* w is a leaf of h holding key k, value v and the statistics of a leaf
LeafOf(h, w, k, v) ==
  /\ w # NULL
  /\ h.nd[w].key = k /\ h.nd[w].value = v
  /\ h.nd[w].left = NULL /\ h.nd[w].right = NULL
  /\ h.nd[w].ht = 1

\* h is the 3-node tree with root key 2, left child 1 and right child 3,
\* both children leaves, values equal to keys
Tree213(h) ==
  /\ h.root # NULL /\ h.n = 3
  /\ h.nd[h.root].key = 2 /\ h.nd[h.root].value = 2
  /\ LeafOf(h, h.nd[h.root].left, 1, 1)
  /\ LeafOf(h, h.nd[h.root].right, 3, 3)

\* The statistics stored at w
StatsOf(h, w) == <<h.nd[w].num, h.nd[w].sum, h.nd[w].min, h.nd[w].max>>

\* C13 (Scenario E): erase(2) on the tree 2/(1,3) leaves a 2-node tree whose
\* root holds key 3 and value 3, with the leaf of key 1 as left child and no
\* right child, root height 2, leaf height 1, root statistics {2,4,1,3} and
\* size 2.
ScenarioE ==
  (op.name = "erase" /\ op.k = 2 /\ Tree213(pre)) =>
    /\ size(tree) = 2
    /\ tree.root # NULL
    /\ tree.nd[tree.root].key = 3 /\ tree.nd[tree.root].value = 3
    /\ tree.nd[tree.root].parent = NULL
    /\ LeafOf(tree, tree.nd[tree.root].left, 1, 1)
    /\ tree.nd[tree.root].right = NULL
    /\ height(tree, tree.root) = 2
    /\ StatsOf(tree, tree.root) = <<2, 4, 1, 3>>
    /\ StatsOf(tree, tree.nd[tree.root].left) = <<1, 1, 1, 1>>
    /\ Reach(tree) = {tree.root, tree.nd[tree.root].left}
    /\ find(tree, 2) = NULL

\* C13 witness: erase(2) has just run on the tree 2/(1,3).
ScenarioEWitness ==
  /\ op.name = "erase" /\ op.k = 2 /\ Tree213(pre)
  /\ raw.n = 2 /\ raw.nd[raw.root].key = 3

\* The subtree rooted at w as nested tuples <<key, value, left, right>>
RECURSIVE Dump(_, _)
Dump(h, w) ==
  IF w = NULL THEN <<>>
  ELSE <<h.nd[w].key, h.nd[w].value, Dump(h, h.nd[w].left), Dump(h, h.nd[w].right)>>

\* The last operation was put(k, k) on a tree whose dump was before
PutOn(k, before) ==
  op.name = "put" /\ op.k = k /\ op.v = k /\ Dump(pre, pre.root) = before

Leaf(k) == <<k, k, <<>>, <<>> >>

\* C14 (Scenarios A and B): from the empty tree, put(1,1), put(2,2),
\* put(3,3), and likewise put(3,3), put(2,2), put(1,1), rotate nothing at the
\* first two insertions and end, by exactly one call of rebalance making
\* exactly one single rotation at the third, with root 2 and leaves 1 and 3.
ScenarioAB ==
  /\ PutOn(1, <<>>) => Dump(tree, tree.root) = Leaf(1) /\ raw.rot = 0
  /\ PutOn(2, Leaf(1)) =>
        Dump(tree, tree.root) = <<1, 1, <<>>, Leaf(2)>> /\ raw.rot = 0
  /\ PutOn(3, <<1, 1, <<>>, Leaf(2)>>) =>
        Tree213(tree) /\ raw.reb = 1 /\ raw.rot = 1
  /\ PutOn(3, <<>>) => Dump(tree, tree.root) = Leaf(3) /\ raw.rot = 0
  /\ PutOn(2, Leaf(3)) =>
        Dump(tree, tree.root) = <<3, 3, Leaf(2), <<>> >> /\ raw.rot = 0
  /\ PutOn(1, <<3, 3, Leaf(2), <<>> >>) =>
        Tree213(tree) /\ raw.reb = 1 /\ raw.rot = 1

\* C14 witness: the third insertion of Scenario B (3, 2, 1) has just run.
ScenarioABWitness ==
  PutOn(1, <<3, 3, Leaf(2), <<>> >>) /\ raw.nd[raw.root].key = 2

\* C15 (Scenario C): from the empty tree, inserting 1, 3, 2 ends with root
\* 2 and leaves 1 and 3, by one call of rebalance that makes two single
\* rotations, the first lifting the new node 2 above 3, the second above 1.
ScenarioC ==
  /\ PutOn(3, Leaf(1)) =>
        Dump(tree, tree.root) = <<1, 1, <<>>, Leaf(3)>> /\ raw.rot = 0
  /\ PutOn(2, <<1, 1, <<>>, Leaf(3)>>) =>
        /\ Tree213(tree)
        /\ raw.reb = 1 /\ raw.rot = 2
        /\ LET ins == BSTMap_putNode(pre, 2, 2)
               z == pre.root
               y == pre.nd[z].right
               x == ins.r
               first == singleRotation(ins.h, x, y)
               second == singleRotation(first, x, z)
           IN /\ x = raw.root
              /\ Dump(first, first.root) = <<1, 1, <<>>, <<2, 2, <<>>, Leaf(3)>> >>
              /\ Dump(second, second.root) = Dump(tree, tree.root)
              /\ Dump(doubleRotation(ins.h, x, y, z), x) = Dump(tree, tree.root)

\* C15 witness: the third insertion of Scenario C has just run.
ScenarioCWitness ==
  PutOn(2, <<1, 1, <<>>, Leaf(3)>>) /\ raw.rot = 2

\* C16 (Scenario D): after the third insertion of the orders 1,2,3 / 3,2,1
\* / 1,3,2, find(2) is the node of value 2 with statistics {3,6,1,3}, and
\* the nodes of keys 1 and 3 have statistics {1,1,1,1} and {1,3,3,3}.
ScenarioD ==
  (\/ PutOn(3, <<1, 1, <<>>, Leaf(2)>>)
   \/ PutOn(1, <<3, 3, Leaf(2), <<>> >>)
   \/ PutOn(2, <<1, 1, <<>>, Leaf(3)>>)) =>
    /\ find(tree, 2) # NULL
    /\ tree.nd[find(tree, 2)].value = 2
    /\ StatsOf(tree, find(tree, 2)) = <<3, 6, 1, 3>>
    /\ find(tree, 1) # NULL /\ StatsOf(tree, find(tree, 1)) = <<1, 1, 1, 1>>
    /\ find(tree, 3) # NULL /\ StatsOf(tree, find(tree, 3)) = <<1, 3, 3, 3>>

\* C16 witness: the third insertion of order 1,2,3 has just run and find(2)
\* is the root.
ScenarioDWitness ==
  PutOn(3, <<1, 1, <<>>, Leaf(2)>>) /\ find(tree, 2) = tree.root /\ size(tree) = 3

\* The nodes of the tree before the operation that it deleted
Removed == {a \in Reach(pre) : ~raw.nd[a].live}

\* C17: eraseNode(k) returns, when k is present, the node that was the
\* parent of the one node physically removed (NULL if that node was the
\* root); when k is absent from a non-empty tree, the node where the search
\* for k ended; NULL on the empty tree.  A returned node is a live node of
\* the tree after rebalancing.
EraseReturn ==
  op.name = "erase" =>
    /\ IF pre.root = NULL THEN op.r = NULL
       ELSE IF op.k \in {pre.nd[a].key : a \in Reach(pre)}
       THEN /\ Cardinality(Removed) = 1
            /\ \A a \in Removed : op.r = pre.nd[a].parent
       ELSE /\ Removed = {}
            /\ op.r \in Reach(pre)
            /\ op.r = findNode(pre, op.k)
            /\ IF op.k < pre.nd[op.r].key
               THEN pre.nd[op.r].left = NULL
               ELSE op.k > pre.nd[op.r].key /\ pre.nd[op.r].right = NULL
    /\ op.r # NULL => raw.nd[op.r].live /\ op.r \in Reach(raw)

\* C17 witness: an erase removed a node below the root and a rotation then
\* moved the returned node away from the root.
EraseReturnWitness ==
  /\ op.name = "erase"
  /\ Removed # {}
  /\ op.r # NULL /\ op.r # raw.root
  /\ raw.rot >= 1

\* C18: every call of rebalance(z) made during the last operation met its
\* precondition: the stored heights of the children of z differed by exactly
\* 2, every node below z was balanced with a correct stored height, and the
\* chosen y and x were a child of z and a child of y, neither NULL.
RebalancePrecondition == raw.preOK

\* C18 witness: an erase called rebalance.
RebalancePreconditionWitness ==
  op.name = "erase" /\ raw.reb >= 1 /\ raw.preOK /\ size(pre) >= 5

\* C19: every call of rebalance(z) made during the last operation left the
\* returned node r in the slot z had under its parent (or as the root), over
\* the same nodes and keys, each balanced with a correct stored height; and
\* when the two children of y had equal heights the rotation was single.
RebalancePostcondition == raw.postOK /\ ~raw.tieDouble

\* C19 witness: an erase called rebalance on a node whose taller child y
\* had children of equal heights.
RebalancePostconditionWitness ==
  op.name = "erase" /\ raw.reb >= 1 /\ raw.tie /\ raw.postOK

\* In heap b, node c (or NULL) hangs where node a hung in heap h
TakesPlace(h, b, a, c) ==
  LET p == h.nd[a].parent
  IN /\ c # NULL => b.nd[c].parent = p
     /\ IF p = NULL THEN b.root = c
        ELSE IF h.nd[p].left = a THEN b.nd[p].left = c ELSE b.nd[p].right = c

\* The node of minimum key in the subtree rooted at w
MinNode(h, w) ==
  CHOOSE a \in Nodes(h, w) : \A c \in Nodes(h, w) : h.nd[a].key <= h.nd[c].key

\* C20: when erase(k) finds k in a node w with two children, the BST
\* deletion leaves w in place (same parent, same slot, same left child) with
\* the key and value of the minimum node s of its right subtree, and removes
\* s alone, the right child of s taking the place of s; when w has at most
\* one child, w alone is removed and its only child (or NULL) takes its
\* place under its parent or as the root.
SuccessorSplice ==
  (op.name = "erase" /\ op.k \in {pre.nd[a].key : a \in Reach(pre)}) =>
    LET w == CHOOSE a \in Reach(pre) : pre.nd[a].key = op.k
        b == BSTMap_eraseNode(pre, op.k).h
    IN IF pre.nd[w].left # NULL /\ pre.nd[w].right # NULL
       THEN LET s == MinNode(pre, pre.nd[w].right)
            IN /\ Removed = {s}
               /\ Reach(b) = Reach(pre) \ {s}
               /\ b.n = pre.n - 1
               /\ b.root = pre.root
               /\ b.nd[w].parent = pre.nd[w].parent
               /\ TakesPlace(pre, b, w, w)
               /\ b.nd[w].left = pre.nd[w].left
               /\ b.nd[w].key = pre.nd[s].key /\ b.nd[w].value = pre.nd[s].value
               /\ raw.nd[w].key = pre.nd[s].key /\ raw.nd[w].value = pre.nd[s].value
               /\ pre.nd[s].left = NULL
               /\ IF s = pre.nd[w].right
                  THEN b.nd[w].right = pre.nd[s].right
                  ELSE b.nd[w].right = pre.nd[w].right
               /\ TakesPlace(pre, b, s, pre.nd[s].right)
               /\ \A a \in Reach(b) \ {w} :
                    b.nd[a].key = pre.nd[a].key /\ b.nd[a].value = pre.nd[a].value
       ELSE LET c == IF pre.nd[w].left # NULL THEN pre.nd[w].left ELSE pre.nd[w].right
            IN /\ Removed = {w}
               /\ Reach(b) = Reach(pre) \ {w}
               /\ b.n = pre.n - 1
               /\ TakesPlace(pre, b, w, c)
               /\ \A a \in Reach(b) :
                    b.nd[a].key = pre.nd[a].key /\ b.nd[a].value = pre.nd[a].value

\* C20 witness: an erase found its key in a node with two children whose
\* successor was not its right child and had a right child of its own.
SuccessorSpliceWitness ==
  /\ op.name = "erase"
  /\ \E w \in Reach(pre) :
       /\ pre.nd[w].key = op.k
       /\ pre.nd[w].left # NULL /\ pre.nd[w].right # NULL
       /\ MinNode(pre, pre.nd[w].right) # pre.nd[w].right
       /\ pre.nd[MinNode(pre, pre.nd[w].right)].right # NULL
       /\ Removed = {MinNode(pre, pre.nd[w].right)}

\* C21: every call of TreeMapStats::singleRotation(y, z) made during the
\* last operation returned with the statistics of z and of y equal to the
\* true count, sum, minimum and maximum of the subtrees they then rooted.
RotationStats == raw.rotStats

\* C22: during the last operation no node had updateInfo applied to it more
\* than once.
UpdateOnce == \A a \in Addr : raw.upd[a] <= 1

\* C22 amended: during the last operation updateInfo was applied to each
\* node at most once by the final walk and at most once by each single
\* rotation: at most once when nothing rotated, and never more than once
\* more than the number of single rotations.
UpdateOncePerWalk ==
  /\ \A a \in Addr : raw.upd[a] <= raw.rot + 1
  /\ \A a \in Addr : raw.upd[a] > 0 => raw.nd[a].live /\ a \in Reach(raw)
  /\ op.name = "put" => \A a \in Addr : raw.upd[a] <= 3

\* C22 witness: a put with a double rotation recomputed one node three
\* times.
UpdateOncePerWalkWitness ==
  op.name = "put" /\ raw.rot = 2 /\ \E a \in Reach(raw) : raw.upd[a] = 3

\* C23: a put calls rebalance at most once, making one or two single
\* rotations; the subtree rebalance returns has the height recorded before
\* the fix, so the walk stops there; a put of a key already present calls
\* rebalance and rotates not at all.
PutRebalancesOnce ==
  op.name = "put" =>
    /\ raw.reb <= 1
    /\ raw.rebStop
    /\ raw.reb = 1 => raw.rot \in {1, 2}
    /\ raw.reb = 0 => raw.rot = 0
    /\ find(pre, op.k) # NULL => raw.reb = 0 /\ raw.rot = 0

\* C23 witness: a put rebalanced a node below the root and the walk left
\* the ancestors above it unvisited.
PutRebalancesOnceWitness ==
  op.name = "put" /\ raw.reb = 1 /\ raw.earlyRot /\ raw.early >= 1

\* C24: the last operation deleted no node twice and dereferenced no node
\* after its delete; a deleted node was left as it was when deleted; and
\* in the tree no root, left, right or parent field refers to a node that
\* is not a live node of the tree.
NoUseAfterDelete ==
  /\ ~raw.uaf /\ ~raw.dblFree
  /\ \A a \in Removed : raw.nd[a] = [pre.nd[a] EXCEPT !.live = FALSE]
  /\ \A h \in {raw, tree} :
       /\ h.root # NULL => h.nd[h.root].live
       /\ \A a \in Reach(h) :
            /\ h.nd[a].live
            /\ \A c \in {h.nd[a].left, h.nd[a].right, h.nd[a].parent} \ {NULL} :
                 h.nd[c].live /\ c \in Reach(h)
       /\ Cardinality({a \in Addr : h.nd[a].live}) = Cardinality(Reach(h))

\* C24 witness: an erase deleted a node and then rotated.
NoUseAfterDeleteWitness ==
  op.name = "erase" /\ Removed # {} /\ raw.rot >= 1 /\ ~raw.uaf

\* C25: every call that has begun (put, erase, the climb of successor or
\* predecessor, the teardown) comes to its end.
Terminates == InCall ~> ~InCall

\* Followed step by step, put and erase end in the heap, with the returned
\* node, that the operation computes as a whole.
StepwiseAgrees ==
  (walk.pc = "idle" /\ op.name \in {"put", "erase"}) =>
    LET whole == IF op.name = "put" THEN TreeMapStats_putNode(pre, op.k, op.v)
                                    ELSE TreeMapStats_eraseNode(pre, op.k)
    IN raw = whole.h /\ op.r = whole.r

\* C25 witness: an erase is in its statistics walk, two nodes below the
\* root, after a rotation.
TerminatesWitness ==
  /\ walk.pc = "update" /\ walk.name = "erase"
  /\ walk.h.rot >= 1
  /\ walk.cur # NULL /\ Depth(walk.h, walk.cur) >= 2

\* C27: when deleteAll has returned, every node has been deleted, none
\* twice and none dereferenced after its delete, and the map is empty:
\* size() = 0 and empty() = true (root is NULL).
TeardownEmpties ==
  walk.pc = "destroyed" =>
    /\ ~walk.h.uaf /\ ~walk.h.dblFree
    /\ \A a \in Addr : ~walk.h.nd[a].live
    /\ size(walk.h) = 0
    /\ empty(walk.h)

\* C26: whatever int values are put, no addition of updateStats leaves the
\* range of int, and the sum stored at every node is the mathematical sum of
\* the values in its subtree.
SumNeverOverflows ==
  /\ op.name # "abort"
  /\ ~raw.ovf
  /\ \A w \in Reach(tree) : SumIs(tree, Nodes(tree, w), tree.nd[w].sum)

====
